---- MODULE Spec2Model ----
(***************************************************************************)
(* Ride dispatch, acceptance, trip lifecycle and fare computation of the   *)
(* driver application, modelled over the tables of the record store        *)
(* (rides, drivers, live_locations, notifications, trip_completions and    *)
(* the fare configuration tables).                                         *)
(*                                                                         *)
(* Money and distances are integers in hundredths (Scale), so 139.9 is     *)
(* 13990 and 5.2 km is 520.                                                *)
(*                                                                         *)
(* Store calls whose outcome the code inspects take their outcome as an    *)
(* input (ok / failed).  Store calls whose outcome the code never looks at *)
(* are taken to reach a reachable store and to take effect.                *)
(***************************************************************************)
EXTENDS Integers, Sequences, FiniteSets, TLC

-----------------------------------------------------------------------------
(* Bounds *)

NumRides == 1
NumDrivers == 2
MaxNotifications == 2
MaxCompletions == 2

Rides == 1..NumRides
Drivers == 1..NumDrivers

-----------------------------------------------------------------------------
(* Values of the record store *)

NULL == 0

RideStatuses ==
  {"requested", "accepted", "driver_arrived", "in_progress", "completed",
   "cancelled", "no_drivers_available"}

BookingTypes == {"regular", "rental", "outstation", "airport"}

Scale == 100

VARIABLES
  rides,            \* rides table: one row per ride id
  drivers,          \* drivers table: status, is_verified, vehicle_type
  driverLocal,      \* AuthContext state of each driver's client: driver.status
  live_locations,   \* live_locations table: the location rows uploaded
  notifications,    \* ride_request notification rows per (driver, ride)
  trip_completions, \* trip_completions rows, in insertion order
  config,           \* booking types that have an active rate row
  dispatch,         \* the handleNotifyDrivers request in progress, if any
  acc,              \* per driver: its accept-ride request in flight, if any
  resp,             \* response of the last driver-api request answered
  fareResult,       \* result of the last calculateAndStoreTripFare
  completeResult,   \* result of the last completeRide
  quote,            \* value of the last fare function applied on its own
  nearby,           \* response of the last find-nearby-drivers request
  otpResult         \* result of the last verifyPickupOTP

vars ==
  <<rides, drivers, driverLocal, live_locations, otpResult, quote, nearby,
    notifications,
    trip_completions, config, dispatch, acc, resp, fareResult,
    completeResult>>

-----------------------------------------------------------------------------
(* Rows and samples *)

\* fare_amount, distance_km, duration_minutes: number | null
NoValue == 0 - 1

VehicleTypes == {"sedan", "suv"}

\* n rows of live_locations that driver d uploaded from one place within
\* one minute: their age in minutes when a search runs and their distance
\* from the pickup in hundredths of a km
LocSample(d, age, dist, n) ==
  [user_id |-> d, age_min |-> age, dist |-> dist, n |-> n]

NoLocations == {}

\* live_locations tables in which driver 1 alone has uploaded
LocSamples ==
  {NoLocations, {LocSample(1, 5, 300, 1)}, {LocSample(1, 45, 300, 1)},
   {LocSample(1, 5, 2000, 1)}}

NewRide(bt) ==
  [status |-> "requested", driver_id |-> NULL, booking_type |-> bt,
   vehicle_type |-> "sedan", fare_amount |-> NoValue,
   distance_km |-> NoValue, duration_minutes |-> NoValue,
   pickup_otp |-> NULL]

\* no notify-drivers request in progress.  readOk records whether the reads
\* of findNearbyDrivers succeeded, which the function does not return
Idle ==
  [pc |-> "idle", ride |-> 0, found |-> <<>>, i |-> 0, created |-> 0,
   readOk |-> TRUE]

\* a field that a response does not carry
Absent == 0 - 1

\* a driver-api response: the endpoint, its caller and ride, the HTTP
\* status, the body's success flag and its error or message, the number of
\* rows the request's conditional update matched, and the body's counts
Response(op, d, r, http, success, text, rows, found, sent) ==
  [op |-> op, driver |-> d, ride |-> r, http |-> http, success |-> success,
   text |-> text, rows |-> rows, drivers_found |-> found,
   notifications_sent |-> sent]

NoResponse == Response("none", 0, 0, 0, FALSE, "", Absent, Absent, Absent)

-----------------------------------------------------------------------------
(* Record store primitives *)

\* .select().single(): the row when exactly one row comes back, otherwise
\* the error PGRST116 and no data
single(n) ==
  IF n = 1 THEN [data |-> TRUE, error |-> "none"]
  ELSE [data |-> FALSE, error |-> "PGRST116"]

\* ascending sequence of the members of a set of driver ids
RECURSIVE SeqOf(_)
SeqOf(S) ==
  IF S = {} THEN <<>>
  ELSE LET m == CHOOSE x \in S : \A y \in S : x <= y
       IN <<m>> \o SeqOf(S \ {m})

NotificationRows(d, r) == notifications[d][r].unread + notifications[d][r].read

-----------------------------------------------------------------------------
(* AuthContext.updateDriverStatus(status) of driver d's client, applied to a
   drivers table drv; ok is the outcome of its database update *)

StatusUpdateThrows(d, status, ok) == driverLocal[d] # status /\ ~ok

DriversAfterStatusUpdate(drv, d, status, ok) ==
  IF driverLocal[d] # status /\ ok
  THEN [drv EXCEPT
          ![d].status = status,
          ![d].is_verified = IF status = "online" THEN TRUE ELSE @]
  ELSE drv

LocalAfterStatusUpdate(d, status, ok) ==
  IF StatusUpdateThrows(d, status, ok) THEN driverLocal
  ELSE [driverLocal EXCEPT ![d] = status]

\* the profile screen's online/offline switch
updateDriverStatus(d, status, ok) ==
  /\ drivers' = DriversAfterStatusUpdate(drivers, d, status, ok)
  /\ driverLocal' = LocalAfterStatusUpdate(d, status, ok)
  /\ UNCHANGED <<rides, live_locations, otpResult, quote, nearby, notifications, trip_completions,
                 config, dispatch, acc, resp, fareResult,
                 completeResult>>

\* AuthContext holds no driver: nobody is signed in on the client
SignedOut == "signed_out"

\* the statuses updateDriverStatus accepts
ClientStatuses == {"offline", "online", "busy"}

\* signIn on driver d's client.  credsOk: the credentials match and the
\* reads of driver_credentials, users and drivers succeed; updateOk is the
\* outcome of the update that forces the driver online
signIn(d, credsOk, updateOk) ==
  /\ driverLocal[d] = SignedOut
  /\ IF ~credsOk \/ ~drivers[d].is_verified
       THEN UNCHANGED <<drivers, driverLocal>>
       ELSE /\ drivers' =
                 IF updateOk
                 THEN [drivers EXCEPT ![d].status = "online",
                                      ![d].is_verified = TRUE]
                 ELSE drivers
            /\ driverLocal' = [driverLocal EXCEPT ![d] = drivers'[d].status]
  /\ UNCHANGED <<rides, live_locations, otpResult, quote, nearby,
                 notifications, trip_completions, config, dispatch, acc, resp,
                 fareResult, completeResult>>

\* initializeAuth when the app starts with a session left by a sign-in:
\* readOk is the outcome of the read of the drivers row, stored the status
\* the stored session holds, which is used when the read fails
initializeAuth(d, readOk, stored) ==
  /\ driverLocal[d] = SignedOut
  /\ driverLocal' =
       [driverLocal EXCEPT ![d] = IF readOk THEN drivers[d].status ELSE stored]
  /\ UNCHANGED <<rides, drivers, live_locations, otpResult, quote, nearby,
                 notifications, trip_completions, config, dispatch, acc, resp,
                 fareResult, completeResult>>

signOut(d) ==
  /\ driverLocal[d] # SignedOut
  /\ driverLocal' = [driverLocal EXCEPT ![d] = SignedOut]
  /\ UNCHANGED <<rides, drivers, live_locations, otpResult, quote, nearby,
                 notifications, trip_completions, config, dispatch, acc, resp,
                 fareResult, completeResult>>

-----------------------------------------------------------------------------
(* driver-api: findNearbyDrivers and handleNotifyDrivers *)

RadiusKm == 1500
MaxLocationAgeMin == 30
LocationQueryLimit == 100

\* .eq('status', 'online').eq('is_verified', true)
onlineDrivers ==
  {d \in Drivers : drivers[d].status = "online" /\ drivers[d].is_verified}

RECURSIVE RowCount(_)
RowCount(rows) ==
  IF rows = {} THEN 0
  ELSE LET x == CHOOSE y \in rows : TRUE IN x.n + RowCount(rows \ {x})

\* the rows of the given drivers that precede x in descending updated_at
NewerRows(x, ids) ==
  {y \in live_locations : y.user_id \in ids /\ y.age_min < x.age_min}

\* .in('user_id', ids).order('updated_at', { ascending: false }), cut to
\* the first LocationQueryLimit rows when limited
SelectLocations(ids, limited) ==
  {x \in live_locations :
     /\ x.user_id \in ids
     /\ limited => RowCount(NewerRows(x, ids)) < LocationQueryLimit}

\* the entry of the latestLocations map for driver d, built from the rows a
\* query returned
latestLocations(d, rows) ==
  LET own == {x \in rows : x.user_id = d}
  IN IF own = {} THEN {}
     ELSE {CHOOSE x \in own : \A y \in own : x.age_min <= y.age_min}

\* no recency check at all
Recent_Always(age, maxAge) == TRUE

\* an age that passes the recency check against maxAge minutes
Recent(age, maxAge) == ~(age > maxAge)

\* the drivers findNearbyDrivers returns, in the order of the drivers
\* query; readOk is the outcome of its reads.  vehicleType is not read
findNearbyDrivers(vehicleType, radius, readOk) ==
  IF ~readOk THEN {}
  ELSE LET rows == SelectLocations(onlineDrivers, TRUE)
       IN {d \in onlineDrivers :
             \E x \in latestLocations(d, rows) :
               /\ Recent(x.age_min, MaxLocationAgeMin)
               /\ x.dist <= radius}

NotifyResponse(r, msg, found, sent) ==
  Response("notify", 0, r, 200, TRUE, msg, Absent, found, sent)

\* request received: the ride is read and, if it is requested, the nearby
\* drivers are looked up
NotifyLoad(r, readOk) ==
  /\ dispatch.pc = "idle"
  /\ \A d \in Drivers : NotificationRows(d, r) < MaxNotifications
  /\ IF rides[r].status # "requested"
       THEN /\ resp' = NotifyResponse(r, "Ride not in requested status",
                                      Absent, Absent)
            /\ UNCHANGED dispatch
       ELSE LET nearbyDrivers ==
                  SeqOf(findNearbyDrivers(rides[r].vehicle_type, RadiusKm,
                                          readOk))
            IN /\ dispatch' =
                    [pc |-> IF Len(nearbyDrivers) = 0 THEN "none"
                            ELSE "sending",
                     ride |-> r, found |-> nearbyDrivers, i |-> 1,
                     created |-> 0, readOk |-> readOk]
               /\ resp' = NoResponse
  /\ UNCHANGED <<rides, drivers, driverLocal, live_locations, otpResult, quote, nearby, notifications,
                 trip_completions, config, acc, fareResult, completeResult>>

\* the notifications table after sendDriverNotification inserts a row for d
sendDriverNotification(d, r) ==
  [notifications EXCEPT ![d][r].unread = @ + 1]

\* the update left out
MarkNoDrivers_Skipped(r) == rides

\* the rides table after the unconditional update that marks ride r
MarkNoDrivers(r) ==
  [rides EXCEPT ![r].status = "no_drivers_available"]

\* zero nearby drivers: the ride is marked and the request answered
NotifyNoDrivers ==
  /\ dispatch.pc = "none"
  /\ rides' = MarkNoDrivers(dispatch.ride)
  /\ resp' = NotifyResponse(dispatch.ride, "No drivers available",
                            Absent, Absent)
  /\ dispatch' = Idle
  /\ UNCHANGED <<drivers, driverLocal, live_locations, otpResult, quote, nearby, notifications,
                 trip_completions, config, acc, fareResult, completeResult>>

\* the loop left at the first insert that fails
NotifySend_StopsAtFailure(insertOk) ==
  /\ dispatch.pc = "sending"
  /\ dispatch.i <= Len(dispatch.found)
  /\ notifications' =
       IF insertOk
       THEN sendDriverNotification(dispatch.found[dispatch.i], dispatch.ride)
       ELSE notifications
  /\ dispatch' =
       IF insertOk
       THEN [dispatch EXCEPT !.i = @ + 1, !.created = @ + 1]
       ELSE [dispatch EXCEPT !.i = Len(dispatch.found) + 1]
  /\ UNCHANGED <<rides, drivers, driverLocal, live_locations, otpResult, quote, nearby,
                 trip_completions, config, acc, resp, fareResult,
                 completeResult>>

\* one turn of the notification loop; insertOk is the outcome of the insert
NotifySend(insertOk) ==
  /\ dispatch.pc = "sending"
  /\ dispatch.i <= Len(dispatch.found)
  /\ notifications' =
       IF insertOk
       THEN sendDriverNotification(dispatch.found[dispatch.i], dispatch.ride)
       ELSE notifications
  /\ dispatch' = [dispatch EXCEPT !.i = @ + 1,
                                  !.created = IF insertOk THEN @ + 1 ELSE @]
  /\ UNCHANGED <<rides, drivers, driverLocal, live_locations, otpResult, quote, nearby,
                 trip_completions, config, acc, resp, fareResult,
                 completeResult>>

\* the request answered with the counts, the ride left as it is
NotifyFinish_MarksNothing ==
  /\ dispatch.pc = "sending"
  /\ dispatch.i > Len(dispatch.found)
  /\ resp' = NotifyResponse(dispatch.ride, "", Len(dispatch.found),
                            dispatch.created)
  /\ dispatch' = Idle
  /\ UNCHANGED <<rides, drivers, driverLocal, live_locations, otpResult, quote, nearby,
                 notifications, trip_completions, config, acc, fareResult,
                 completeResult>>

\* after the loop: the ride is marked when nothing was created, and the
\* request is answered with the counts
NotifyFinish ==
  /\ dispatch.pc = "sending"
  /\ dispatch.i > Len(dispatch.found)
  /\ rides' =
       IF dispatch.created = 0 THEN MarkNoDrivers(dispatch.ride) ELSE rides
  /\ resp' = NotifyResponse(dispatch.ride, "", Len(dispatch.found),
                            dispatch.created)
  /\ dispatch' = Idle
  /\ UNCHANGED <<drivers, driverLocal, live_locations, otpResult, quote, nearby, notifications,
                 trip_completions, config, acc, fareResult, completeResult>>

-----------------------------------------------------------------------------
(* driver-api: handleAcceptRide, with RideContext.acceptRide as its caller *)

\* no accept-ride request in flight
NoCall == [ride |-> 0, raced |-> FALSE]

\* the drivers other than d whose accept-ride request for r is in flight
Rivals(d, r) == {e \in Drivers \ {d} : acc[e].ride = r}

\* RideContext.acceptRide: the request for ride r is sent; raced records
\* that another driver's request for the same requested ride is in flight
\* at the same time
AcceptBegin(d, r) ==
  /\ acc[d] = NoCall
  /\ NotificationRows(d, r) > 0
  /\ LET race == Rivals(d, r) # {} /\ rides[r].status = "requested"
     IN acc' = [e \in Drivers |->
                 IF e = d THEN [ride |-> r, raced |-> race]
                 ELSE IF race /\ e \in Rivals(d, r)
                   THEN [acc[e] EXCEPT !.raced = TRUE]
                 ELSE acc[e]]
  /\ UNCHANGED <<rides, drivers, driverLocal, live_locations, otpResult, quote, nearby, notifications,
                 trip_completions, config, dispatch, resp, fareResult,
                 completeResult>>

\* rows the conditional update of handleAcceptRide matches
AcceptMatches(r) ==
  IF rides[r].status = "requested" /\ rides[r].driver_id = NULL THEN 1 ELSE 0

\* the response of handleAcceptRide for a store outcome and a row count
AcceptResponse(d, r, storeOk, rows) ==
  IF ~storeOk
    THEN Response("accept", d, r, 500, FALSE, "Database error: store",
                  Absent, Absent, Absent)
  ELSE IF single(rows).error # "none"
    THEN Response("accept", d, r, 500, FALSE, "Database error: PGRST116",
                  rows, Absent, Absent)
  ELSE IF ~single(rows).data
    THEN Response("accept", d, r, 409, FALSE, "Ride already assigned",
                  rows, Absent, Absent)
  ELSE Response("accept", d, r, 200, TRUE, "Ride accepted successfully",
                rows, Absent, Absent)

\* the assignment undone and the request refused when the server's driver
\* update fails
handleAcceptRide_RollsBack(d, storeOk, busyOk, clientOk) ==
  /\ acc[d] # NoCall
  /\ LET r == acc[d].ride
         rows == IF storeOk THEN AcceptMatches(r) ELSE 0
         first == AcceptResponse(d, r, storeOk, rows)
         answer == IF first.success /\ ~busyOk
                   THEN AcceptResponse(d, r, FALSE, 0)
                   ELSE first
         threw == answer.success /\ StatusUpdateThrows(d, "busy", clientOk)
     IN /\ rides' =
             IF answer.success
             THEN [rides EXCEPT ![r].driver_id = d, ![r].status = "accepted"]
             ELSE rides
        /\ drivers' =
             IF answer.success
             THEN DriversAfterStatusUpdate(
                    [drivers EXCEPT ![d].status = "busy"], d, "busy", clientOk)
             ELSE drivers
        /\ driverLocal' =
             IF answer.success
             THEN LocalAfterStatusUpdate(d, "busy", clientOk)
             ELSE driverLocal
        /\ notifications' =
             IF answer.success /\ ~threw
             THEN [notifications EXCEPT ![d][r] =
                     [unread |-> 0, read |-> @.read + @.unread]]
             ELSE notifications
        /\ resp' = answer
        /\ acc' = [acc EXCEPT ![d] = NoCall]
  /\ UNCHANGED <<live_locations, otpResult, quote, nearby, trip_completions, config,
                 dispatch, fareResult, completeResult>>

\* the server handles the request and the client acts on the response:
\* storeOk, busyOk, clientOk are the outcomes of the ride update, of the
\* server's driver update and of the client's updateDriverStatus('busy')
handleAcceptRide(d, storeOk, busyOk, clientOk) ==
  /\ acc[d] # NoCall
  /\ LET r == acc[d].ride
         rows == IF storeOk THEN AcceptMatches(r) ELSE 0
         answer == AcceptResponse(d, r, storeOk, rows)
         busy == IF answer.success /\ busyOk
                 THEN [drivers EXCEPT ![d].status = "busy"]
                 ELSE drivers
         threw == answer.success /\ StatusUpdateThrows(d, "busy", clientOk)
     IN /\ rides' =
             IF rows = 1
             THEN [rides EXCEPT ![r].driver_id = d, ![r].status = "accepted"]
             ELSE rides
        /\ drivers' =
             IF answer.success
             THEN DriversAfterStatusUpdate(busy, d, "busy", clientOk)
             ELSE drivers
        /\ driverLocal' =
             IF answer.success
             THEN LocalAfterStatusUpdate(d, "busy", clientOk)
             ELSE driverLocal
        /\ notifications' =
             IF answer.success /\ ~threw
             THEN [notifications EXCEPT ![d][r] =
                     [unread |-> 0, read |-> @.read + @.unread]]
             ELSE notifications
        /\ resp' = answer
        /\ acc' = [acc EXCEPT ![d] = NoCall]
  /\ UNCHANGED <<live_locations, otpResult, quote, nearby, trip_completions, config, dispatch,
                 fareResult, completeResult>>

-----------------------------------------------------------------------------
(* RideContext: the trip lifecycle of driver d's client *)

\* update rides set status = st where id = r and driver_id = d
SetStatusOfOwnRide(d, r, st) ==
  IF rides[r].driver_id = d THEN [rides EXCEPT ![r].status = st] ELSE rides

markDriverArrived(d, r) ==
  /\ rides' = SetStatusOfOwnRide(d, r, "driver_arrived")
  /\ UNCHANGED <<drivers, driverLocal, live_locations, otpResult, quote, nearby, notifications,
                 trip_completions, config, dispatch, acc, resp,
                 fareResult, completeResult>>

\* the codes Math.floor(1000 + Math.random() * 9000) can produce
PickupCodes == {1000, 9999}

\* storeOk is the outcome of the ride update
generatePickupOTP(r, otp, storeOk) ==
  /\ rides' = IF storeOk THEN [rides EXCEPT ![r].pickup_otp = otp] ELSE rides
  /\ UNCHANGED <<drivers, driverLocal, live_locations, otpResult, quote,
                 nearby, notifications, trip_completions, config, dispatch,
                 acc, resp, fareResult, completeResult>>

\* the boolean verifyPickupOTP returns for ride r
OtpOutcome(r, ok) == [ride |-> r, ok |-> ok]

NoOtpResult == OtpOutcome(0, FALSE)

\* verifyPickupOTP with the startRide call it makes when the code matches;
\* readOk is the outcome of the read of pickup_otp, startOk that of the
\* ride update of startRide
verifyPickupOTP(d, r, otp, readOk, startOk) ==
  LET matched == readOk /\ rides[r].pickup_otp = otp
  IN /\ rides' =
          IF matched /\ startOk THEN SetStatusOfOwnRide(d, r, "in_progress")
          ELSE rides
     /\ otpResult' = OtpOutcome(r, matched)
     /\ UNCHANGED <<drivers, driverLocal, live_locations, quote, nearby,
                    notifications, trip_completions, config, dispatch, acc,
                    resp, fareResult, completeResult>>

\* startRide called on its own, as handleStartRide of the rides screen does
startRide(d, r) ==
  /\ rides' = SetStatusOfOwnRide(d, r, "in_progress")
  /\ UNCHANGED <<drivers, driverLocal, live_locations, otpResult, quote, nearby, notifications,
                 trip_completions, config, dispatch, acc, resp,
                 fareResult, completeResult>>

\* storeOk is the outcome of the ride update, clientOk that of
\* updateDriverStatus('online')
cancelRide(d, r, storeOk, clientOk) ==
  /\ rides' = IF storeOk THEN SetStatusOfOwnRide(d, r, "cancelled") ELSE rides
  /\ drivers' =
       IF storeOk THEN DriversAfterStatusUpdate(drivers, d, "online", clientOk)
       ELSE drivers
  /\ driverLocal' =
       IF storeOk THEN LocalAfterStatusUpdate(d, "online", clientOk)
       ELSE driverLocal
  /\ UNCHANGED <<live_locations, otpResult, quote, nearby, notifications, trip_completions, config,
                 dispatch, acc, resp, fareResult,
                 completeResult>>

-----------------------------------------------------------------------------
(* driver-api: handleUpdateRideStatus; cleanup_expired_rides *)

\* body {ride_id: r, status: st, driver_id: d}, d = NULL when not given
handleUpdateRideStatus(r, st, d, storeOk) ==
  /\ rides' = IF storeOk THEN [rides EXCEPT ![r].status = st] ELSE rides
  /\ drivers' =
       IF storeOk /\ st \in {"completed", "cancelled"} /\ d # NULL
       THEN [drivers EXCEPT ![d].status = "online"]
       ELSE drivers
  /\ UNCHANGED <<driverLocal, live_locations, otpResult, quote, nearby, notifications, trip_completions,
                 config, dispatch, acc, resp, fareResult,
                 completeResult>>

\* old is the set of rides created more than three minutes before now()
cleanup_expired_rides(old) ==
  /\ rides' =
       [r \in Rides |->
          IF rides[r].status = "requested" /\ r \in old
          THEN [rides[r] EXCEPT !.status = "no_drivers_available"]
          ELSE rides[r]]
  /\ UNCHANGED <<drivers, driverLocal, live_locations, otpResult, quote, nearby, notifications,
                 trip_completions, config, dispatch, acc, resp,
                 fareResult, completeResult>>

-----------------------------------------------------------------------------
(* find-nearby-drivers: handleFindNearbyDrivers *)

EndpointMaxAgeMin == 15

\* Math.round(distance * 10) / 10 and Math.round(distance * 3), distances
\* in hundredths of a km
RoundedKm(dist) == ((dist + 5) \div 10) * 10
EtaMinutes(dist) == (dist * 3 + 50) \div Scale

\* the first row of driver d in rows ordered by descending updated_at
FirstLocation(d, rows) ==
  LET own == {x \in rows : x.user_id = d}
  IN IF own = {} THEN {}
     ELSE {CHOOSE x \in own : \A y \in own : x.age_min <= y.age_min}

\* the loop over onlineDrivers that pushes the drivers that pass the checks
RECURSIVE PushNearby(_, _, _, _)
PushNearby(ds, rows, vehicle_type, radius_km) ==
  IF ds = <<>> THEN <<>>
  ELSE LET d == Head(ds)
           loc == FirstLocation(d, rows)
           rest == PushNearby(Tail(ds), rows, vehicle_type, radius_km)
       IN IF \E x \in loc :
               /\ Recent(x.age_min, EndpointMaxAgeMin)
               /\ ~(vehicle_type # "any"
                      /\ drivers[d].vehicle_type # vehicle_type)
               /\ x.dist <= radius_km
          THEN LET x == CHOOSE y \in loc : TRUE
               IN <<[driver_id |-> d, distance_km |-> RoundedKm(x.dist),
                     eta_minutes |-> EtaMinutes(x.dist)]>> \o rest
          ELSE rest

\* e put into the sorted list xs behind every entry that is not farther
RECURSIVE InsertByDistance(_, _)
InsertByDistance(e, xs) ==
  IF xs = <<>> THEN <<e>>
  ELSE IF e.distance_km < Head(xs).distance_km THEN <<e>> \o xs
  ELSE <<Head(xs)>> \o InsertByDistance(e, Tail(xs))

\* nearbyDrivers.sort((a, b) => a.distance_km - b.distance_km): a stable
\* sort
RECURSIVE SortByDistance(_)
SortByDistance(xs) ==
  IF xs = <<>> THEN <<>>
  ELSE InsertByDistance(xs[Len(xs)], SortByDistance(SubSeq(xs, 1, Len(xs) - 1)))

NearbyResponse(http, success, text, vehicle_type, radius_km, found) ==
  [http |-> http, success |-> success, text |-> text,
   vehicle_type |-> vehicle_type, radius_km |-> radius_km, drivers |-> found]

NoNearby == NearbyResponse(0, FALSE, "none", "any", 0, <<>>)

\* hasPickup: the body carries both pickup coordinates; driversOk and
\* locationsOk are the outcomes of the two queries
handleFindNearbyDrivers(vehicle_type, radius_km, hasPickup, driversOk, locationsOk) ==
  LET rows == SelectLocations(onlineDrivers, FALSE)
      out(http, success, text, found) ==
        NearbyResponse(http, success, text, vehicle_type, radius_km, found)
  IN /\ nearby' =
          IF ~hasPickup
            THEN out(400, FALSE,
                     "pickup_latitude and pickup_longitude are required",
                     <<>>)
          ELSE IF ~driversOk
            THEN out(500, FALSE, "Failed to fetch drivers", <<>>)
          ELSE IF onlineDrivers = {}
            THEN out(200, TRUE, "No online drivers available", <<>>)
          ELSE IF ~locationsOk
            THEN out(500, FALSE, "Failed to fetch driver locations", <<>>)
          ELSE IF rows = {}
            THEN out(200, TRUE, "No driver locations available", <<>>)
          ELSE out(200, TRUE, "",
                   SortByDistance(PushNearby(SeqOf(onlineDrivers), rows,
                                             vehicle_type, radius_km)))
     /\ UNCHANGED <<rides, drivers, driverLocal, live_locations, otpResult, quote,
                    notifications, trip_completions, config, dispatch, acc,
                    resp, fareResult, completeResult>>

-----------------------------------------------------------------------------
(* FareCalculationService: numbers *)

\* JavaScript NaN and undefined, kept apart from every amount
NaN == 0 - 999999
Undefined == 0 - 999998

isNaN(x) == x \in {NaN, Undefined}

JsAdd(a, b) == IF isNaN(a) \/ isNaN(b) THEN NaN ELSE a + b

\* product of two amounts in hundredths
JsMul(a, b) == IF isNaN(a) \/ isNaN(b) THEN NaN ELSE (a * b) \div Scale

Max(a, b) == IF a >= b THEN a ELSE b

\* Math.ceil(h / 24) for whole hours h
CeilDiv24(h) == (h + 23) \div 24

NoBreakdown ==
  [booking_type |-> "none", base_fare |-> 0, distance_fare |-> 0,
   time_fare |-> 0, surge_charges |-> 0, deadhead_charges |-> 0,
   platform_fee |-> 0, gst_on_charges |-> 0, gst_on_platform_fee |-> 0,
   extra_km_charges |-> 0, driver_allowance |-> 0, total_fare |-> 0]

\* what a sub-policy yields: a breakdown, or an exception with its message
Returned(fb) == [threw |-> FALSE, error |-> "none", fb |-> fb]
Thrown(msg) == [threw |-> TRUE, error |-> msg, fb |-> NoBreakdown]

-----------------------------------------------------------------------------
(* FareCalculationService: configuration rows *)

NoRow == [is_active |-> FALSE]

NoZone == [is_inner |-> FALSE, radius_km |-> 0]
InnerZone(radius) == [is_inner |-> TRUE, radius_km |-> radius]

FareMatrixRows ==
  {[is_active |-> TRUE, base_fare |-> 5000, per_km_rate |-> 1200,
    surge_multiplier |-> 100, platform_fee |-> 1000]}

RentalFareRows ==
  {[is_active |-> TRUE, base_fare |-> 150000, km_included |-> 8000,
    extra_km_rate |-> 1500]}

OutstationFareRows ==
  {[is_active |-> TRUE, base_fare |-> 50000, per_km_rate |-> 1400,
    driver_allowance_per_day |-> 30000, daily_km_limit |-> 30000]}

AirportFareRows ==
  {[is_active |-> TRUE, hosur_to_airport_fare |-> 120000,
    airport_to_hosur_fare |-> 130000]}

RowsOf(bt) ==
  CASE bt = "regular" -> FareMatrixRows
    [] bt = "rental" -> RentalFareRows
    [] bt = "outstation" -> OutstationFareRows
    [] bt = "airport" -> AirportFareRows

-----------------------------------------------------------------------------
(* FareCalculationService: the sub-policies.  row is the newest active rate
   row of the ride's booking and vehicle type, or NoRow when the query
   returns nothing; readOk is the outcome of that query *)

BaseKmIncluded == 400

\* the charge measured from the zone's centre, inside the zone as well
calculateDeadheadCharges_FromCentre(dropDist, perKmRate, zone) ==
  IF ~zone.is_inner THEN 0
  ELSE (dropDist * perKmRate) \div (2 * Scale)

\* the whole distance to the boundary charged, not half of it
calculateDeadheadCharges_Whole(dropDist, perKmRate, zone) ==
  IF ~zone.is_inner THEN 0
  ELSE IF dropDist <= zone.radius_km THEN 0
  ELSE ((dropDist - zone.radius_km) * perKmRate) \div Scale

\* zone is the first active zone named inner or ring (NoZone if none),
\* dropDist the distance from the drop point to its centre
calculateDeadheadCharges(dropDist, perKmRate, zone) ==
  IF ~zone.is_inner THEN 0
  ELSE IF dropDist <= zone.radius_km THEN 0
  ELSE ((dropDist - zone.radius_km) * perKmRate) \div (2 * Scale)

\* build is how the bundle treats a const read above its declaration:
\* "tdz" raises ReferenceError, "hoisted" reads undefined
calculateRegularFare(row, readOk, km, zone, dropDist, build) ==
  IF ~readOk THEN Thrown("Fare configuration not found")
  ELSE IF ~row.is_active
    THEN Thrown("Fare configuration not found for this vehicle type")
  ELSE
    LET platformFee == row.platform_fee
        baseFare == row.base_fare
        perKmRate == row.per_km_rate
        surgeMultiplier ==
          IF row.surge_multiplier = 0 THEN Scale ELSE row.surge_multiplier
        extraKm == Max(0, km - BaseKmIncluded)
        distanceFare == JsMul(extraKm, perKmRate)
        deadheadCharges == calculateDeadheadCharges(dropDist, perKmRate, zone)
        subtotalBeforeSurge == baseFare + distanceFare + deadheadCharges
        surgeCharges == JsMul(subtotalBeforeSurge, surgeMultiplier - Scale)
        \* validBaseFare, validDistanceFare, validDeadheadCharges and
        \* validSurgeCharges are read here, above their declarations
        chargesSubtotal ==
          JsAdd(JsAdd(JsAdd(Undefined, Undefined), Undefined), Undefined)
        gstOnCharges == JsMul(chargesSubtotal, 5)
        validBaseFare == IF isNaN(baseFare) THEN 0 ELSE baseFare
        validDistanceFare == IF isNaN(distanceFare) THEN 0 ELSE distanceFare
        validDeadheadCharges ==
          IF isNaN(deadheadCharges) THEN 0 ELSE deadheadCharges
        validSurgeCharges == IF isNaN(surgeCharges) THEN 0 ELSE surgeCharges
        validPlatformFee == IF isNaN(platformFee) THEN 1000 ELSE platformFee
        validGstOnCharges == IF isNaN(gstOnCharges) THEN 0 ELSE gstOnCharges
        \* gstOnPlatformFee is read here, above its declaration
        totalFare ==
          JsAdd(validBaseFare + validDistanceFare + validDeadheadCharges
                  + validSurgeCharges + validPlatformFee + validGstOnCharges,
                Undefined)
        gstOnPlatformFee == JsMul(validPlatformFee, 18)
    IN IF build = "tdz" THEN Thrown("ReferenceError")
       ELSE Returned(
         [booking_type |-> "regular", base_fare |-> validBaseFare,
          distance_fare |-> validDistanceFare, time_fare |-> 0,
          surge_charges |-> validSurgeCharges,
          deadhead_charges |-> validDeadheadCharges,
          platform_fee |-> validPlatformFee,
          gst_on_charges |-> validGstOnCharges,
          gst_on_platform_fee |-> gstOnPlatformFee,
          extra_km_charges |-> 0, driver_allowance |-> 0,
          total_fare |-> totalFare])

\* a missing rental row priced as a zero fare
calculateRentalFare_Defaulted(row, readOk, km) ==
  Returned([NoBreakdown EXCEPT !.booking_type = "rental"])

\* every km charged at the extra rate, the included km ignored
calculateRentalFare_NoneIncluded(row, readOk, km) ==
  IF ~readOk \/ ~row.is_active
    THEN Thrown("Rental fare configuration not found")
  ELSE
    LET extraKmCharges == JsMul(km, row.extra_km_rate)
    IN Returned(
         [NoBreakdown EXCEPT
            !.booking_type = "rental", !.base_fare = row.base_fare,
            !.extra_km_charges = extraKmCharges,
            !.total_fare = row.base_fare + extraKmCharges])

calculateRentalFare(row, readOk, km) ==
  IF ~readOk \/ ~row.is_active
    THEN Thrown("Rental fare configuration not found")
  ELSE
    LET extraKmCharges ==
          IF km > row.km_included
          THEN JsMul(km - row.km_included, row.extra_km_rate)
          ELSE 0
    IN Returned(
         [booking_type |-> "rental", base_fare |-> row.base_fare,
          distance_fare |-> 0, time_fare |-> 0, surge_charges |-> 0,
          deadhead_charges |-> 0, platform_fee |-> 0, gst_on_charges |-> 0,
          gst_on_platform_fee |-> 0, extra_km_charges |-> extraKmCharges,
          driver_allowance |-> 0,
          total_fare |-> row.base_fare + extraKmCharges])

\* hours is the time between scheduled_time (or now) and now, in hours
calculateOutstationFare(row, readOk, km, hours) ==
  IF ~readOk \/ ~row.is_active
    THEN Thrown("Outstation fare configuration not found")
  ELSE
    LET numberOfDays == Max(1, CeilDiv24(hours))
        totalKmTravelled == km * 2
        totalKmAllowance == row.daily_km_limit * numberOfDays
        driverAllowance == numberOfDays * row.driver_allowance_per_day
        kmFare ==
          IF totalKmTravelled <= totalKmAllowance
          THEN JsMul(row.daily_km_limit * numberOfDays, row.per_km_rate)
          ELSE JsMul(totalKmTravelled, row.per_km_rate)
    IN Returned(
         [booking_type |-> "outstation", base_fare |-> row.base_fare,
          distance_fare |-> kmFare, time_fare |-> 0, surge_charges |-> 0,
          deadhead_charges |-> 0, platform_fee |-> 0, gst_on_charges |-> 0,
          gst_on_platform_fee |-> 0, extra_km_charges |-> 0,
          driver_allowance |-> driverAllowance,
          total_fare |-> row.base_fare + kmFare + driverAllowance])

\* the direction taken the wrong way round
calculateAirportFare_Reversed(row, readOk, pickupToCenter, dropToCenter) ==
  IF ~readOk \/ ~row.is_active
    THEN Thrown("Airport fare configuration not found")
  ELSE
    LET fare ==
          IF pickupToCenter < dropToCenter THEN row.airport_to_hosur_fare
          ELSE row.hosur_to_airport_fare
    IN Returned([NoBreakdown EXCEPT !.booking_type = "airport",
                                    !.base_fare = fare, !.total_fare = fare])

\* pickupToCenter and dropToCenter are the distances of the two endpoints
\* from the city centre
calculateAirportFare(row, readOk, pickupToCenter, dropToCenter) ==
  IF ~readOk \/ ~row.is_active
    THEN Thrown("Airport fare configuration not found")
  ELSE
    LET fare ==
          IF pickupToCenter < dropToCenter THEN row.hosur_to_airport_fare
          ELSE row.airport_to_hosur_fare
    IN Returned(
         [booking_type |-> "airport", base_fare |-> fare, distance_fare |-> 0,
          time_fare |-> 0, surge_charges |-> 0, deadhead_charges |-> 0,
          platform_fee |-> 0, gst_on_charges |-> 0,
          gst_on_platform_fee |-> 0, extra_km_charges |-> 0,
          driver_allowance |-> 0, total_fare |-> fare])

-----------------------------------------------------------------------------
(* FareCalculationService.calculateAndStoreTripFare *)

\* the inputs of one calculation that do not come from the tables modelled
\* here: the first store call that fails (if any), the bundle, the inner
\* zone, and the measured distances and elapsed hours
FareEnv(fail, build, zone, dropDist, hours, pickupToCenter, dropToCenter) ==
  [fail |-> fail, build |-> build, zone |-> zone, dropDist |-> dropDist,
   hours |-> hours, pickupToCenter |-> pickupToCenter,
   dropToCenter |-> dropToCenter]

Failures == {"none", "ride", "zones", "config", "insert"}

FareEnvs(bt) ==
  CASE bt = "regular" ->
         {FareEnv(f, b, z, IF z.is_inner THEN 1400 ELSE 0, 0, 0, 0) :
            f \in Failures, b \in {"tdz", "hoisted"},
            z \in {NoZone, InnerZone(1000)}}
    [] bt = "rental" ->
         {FareEnv(f, "tdz", NoZone, 0, 0, 0, 0) : f \in Failures}
    [] bt = "outstation" ->
         {FareEnv(f, "tdz", NoZone, 0, h, 0, 0) :
            f \in Failures, h \in {0, 30}}
    [] bt = "airport" ->
         {FareEnv(f, "tdz", NoZone, 0, 0, p, 4000 - p) :
            f \in Failures, p \in {500}}

\* the sub-policy the switch on ride.booking_type selects
Policy(bt, km, env) ==
  LET row == config[bt]
      readOk == env.fail # "config"
  IN CASE bt = "regular" ->
            calculateRegularFare(row, readOk, km, env.zone, env.dropDist,
                                 env.build)
       [] bt = "rental" -> calculateRentalFare(row, readOk, km)
       [] bt = "outstation" ->
            calculateOutstationFare(row, readOk, km, env.hours)
       [] bt = "airport" ->
            calculateAirportFare(row, readOk, env.pickupToCenter,
                                 env.dropToCenter)

\* the NOT NULL and CHECK (>= 0) constraints of trip_completions; NaN is
\* sent as null
InsertAccepted(fb) ==
  \A x \in {fb.base_fare, fb.distance_fare, fb.time_fare, fb.surge_charges,
            fb.deadhead_charges, fb.platform_fee, fb.extra_km_charges,
            fb.driver_allowance, fb.total_fare} : ~isNaN(x) /\ x >= 0

FareFailure(r, msg) ==
  [ride |-> r, success |-> FALSE, error |-> msg, fareBreakdown |-> NoBreakdown]

\* the value calculateAndStoreTripFare returns
FareOutcome(r, km, env) ==
  LET p == Policy(rides[r].booking_type, km, env)
  IN IF env.fail = "ride" THEN FareFailure(r, "Ride not found")
     ELSE IF env.fail = "zones"
       THEN FareFailure(r, "Failed to fetch zone configuration")
     ELSE IF p.threw THEN FareFailure(r, p.error)
     ELSE IF env.fail = "insert" \/ ~InsertAccepted(p.fb)
       THEN FareFailure(r, "Failed to store trip completion")
     ELSE [ride |-> r, success |-> TRUE, error |-> "none",
           fareBreakdown |-> p.fb]

CompletionRow(r, km, dur, fb) ==
  [ride_id |-> r, actual_distance_km |-> km, actual_duration_minutes |-> dur,
   total_fare |-> fb.total_fare, fare_breakdown |-> fb]

\* an upsert keyed by ride_id in place of the insert
CompletionsAfter_Upsert(r, km, dur, out) ==
  IF ~out.success THEN trip_completions
  ELSE IF \E i \in DOMAIN trip_completions : trip_completions[i].ride_id = r
    THEN [i \in DOMAIN trip_completions |->
            IF trip_completions[i].ride_id = r
            THEN CompletionRow(r, km, dur, out.fareBreakdown)
            ELSE trip_completions[i]]
  ELSE Append(trip_completions, CompletionRow(r, km, dur, out.fareBreakdown))

\* the trip_completions table after the call
CompletionsAfter(r, km, dur, out) ==
  IF out.success
  THEN Append(trip_completions, CompletionRow(r, km, dur, out.fareBreakdown))
  ELSE trip_completions

\* the rides table after the call
RidesAfterFare(r, km, dur, out) ==
  IF out.success
  THEN [rides EXCEPT ![r].fare_amount = out.fareBreakdown.total_fare,
                     ![r].distance_km = km, ![r].duration_minutes = dur]
  ELSE rides

KmInputs == {1000, 9500}
DurationInputs == {45}

calculateAndStoreTripFare(r, km, dur, env) ==
  /\ Len(trip_completions) < MaxCompletions
  /\ LET out == FareOutcome(r, km, env)
     IN /\ trip_completions' = CompletionsAfter(r, km, dur, out)
        /\ rides' = RidesAfterFare(r, km, dur, out)
        /\ fareResult' = out
  /\ UNCHANGED <<drivers, driverLocal, live_locations, otpResult, quote, nearby, notifications, config,
                 dispatch, acc, resp, completeResult>>

-----------------------------------------------------------------------------
(* RideContext.completeRide of driver d's client, for its current ride r.
   readOk, updateOk, clientOk are the outcomes of the ride read, of the ride
   update and of updateDriverStatus('online') *)

TestDistanceKm == 520
TestDurationMinutes == 45

CompleteOutcome(r, ok) == [ride |-> r, success |-> ok]

completeRide(d, r, env, readOk, updateOk, clientOk) ==
  /\ rides[r].driver_id = d
  /\ Len(trip_completions) < MaxCompletions
  /\ IF ~readOk
       THEN /\ completeResult' = CompleteOutcome(r, FALSE)
            /\ UNCHANGED <<rides, drivers, driverLocal, trip_completions,
                           fareResult>>
       ELSE
         LET out == FareOutcome(r, TestDistanceKm, env)
             priced == RidesAfterFare(r, TestDistanceKm, TestDurationMinutes,
                                      out)
             updated == out.success /\ updateOk
         IN /\ fareResult' = out
            /\ trip_completions' =
                 CompletionsAfter(r, TestDistanceKm, TestDurationMinutes, out)
            /\ rides' =
                 IF updated
                 THEN [priced EXCEPT ![r].status = "completed"]
                 ELSE priced
            /\ drivers' =
                 IF updated
                 THEN DriversAfterStatusUpdate(drivers, d, "online", clientOk)
                 ELSE drivers
            /\ driverLocal' =
                 IF updated THEN LocalAfterStatusUpdate(d, "online", clientOk)
                 ELSE driverLocal
            /\ completeResult' =
                 CompleteOutcome(r, updated
                                    /\ ~StatusUpdateThrows(d, "online", clientOk))
  /\ UNCHANGED <<live_locations, otpResult, quote, nearby, notifications, config, dispatch, acc, resp>>

-----------------------------------------------------------------------------
(* ScheduledScreen: the fare helpers handleCompleteTrip prices a scheduled
   booking with.  row and readOk are as in the service's sub-policies *)

Scheduled_calculateRentalFare(row, readOk, km) ==
  IF ~readOk \/ ~row.is_active
    THEN Thrown("Rental fare configuration not found")
  ELSE
    LET extraKmCharges ==
          IF km > row.km_included
          THEN JsMul(km - row.km_included, row.extra_km_rate)
          ELSE 0
    IN Returned(
         [booking_type |-> "rental", base_fare |-> row.base_fare,
          distance_fare |-> 0, time_fare |-> 0, surge_charges |-> 0,
          deadhead_charges |-> 0, platform_fee |-> 0, gst_on_charges |-> 0,
          gst_on_platform_fee |-> 0, extra_km_charges |-> extraKmCharges,
          driver_allowance |-> 0,
          total_fare |-> row.base_fare + extraKmCharges])

Scheduled_calculateOutstationFare(row, readOk, km, hours) ==
  IF ~readOk \/ ~row.is_active
    THEN Thrown("Outstation fare configuration not found")
  ELSE
    LET numberOfDays == Max(1, CeilDiv24(hours))
        driverAllowance == numberOfDays * row.driver_allowance_per_day
        totalKmAllowance == numberOfDays * row.daily_km_limit
        withinAllowance == km <= totalKmAllowance
        distanceFare ==
          IF withinAllowance THEN 0 ELSE JsMul(km, row.per_km_rate)
        extraKmCharges ==
          IF withinAllowance THEN 0
          ELSE JsMul(km - totalKmAllowance, row.per_km_rate)
    IN Returned(
         [booking_type |-> "outstation", base_fare |-> row.base_fare,
          distance_fare |-> distanceFare, time_fare |-> 0,
          surge_charges |-> 0, deadhead_charges |-> 0, platform_fee |-> 0,
          gst_on_charges |-> 0, gst_on_platform_fee |-> 0,
          extra_km_charges |-> extraKmCharges,
          driver_allowance |-> driverAllowance,
          total_fare |-> row.base_fare + distanceFare + driverAllowance])

Scheduled_calculateAirportFare(row, readOk, pickupToCenter, dropToCenter) ==
  IF ~readOk \/ ~row.is_active
    THEN Thrown("Airport fare configuration not found")
  ELSE
    LET fare ==
          IF pickupToCenter < dropToCenter THEN row.hosur_to_airport_fare
          ELSE row.airport_to_hosur_fare
    IN Returned(
         [booking_type |-> "airport", base_fare |-> fare, distance_fare |-> 0,
          time_fare |-> 0, surge_charges |-> 0, deadhead_charges |-> 0,
          platform_fee |-> 0, gst_on_charges |-> 0,
          gst_on_platform_fee |-> 0, extra_km_charges |-> 0,
          driver_allowance |-> 0, total_fare |-> fare])

-----------------------------------------------------------------------------
(* The fare functions applied on their own to measured inputs *)

\* the inputs of a fare function and, once one has been applied, its name
\* and what it yielded; deadhead is the charge calculateDeadheadCharges
\* yields
Quote(fn, km, hours, pickupToCenter, dropToCenter, zone, dropDist, build, out, deadhead) ==
  [fn |-> fn, km |-> km, hours |-> hours, pickupToCenter |-> pickupToCenter,
   dropToCenter |-> dropToCenter, zone |-> zone, dropDist |-> dropDist,
   build |-> build, out |-> out, deadhead |-> deadhead]

NoQuote ==
  Quote("none", 0, 0, 0, 0, NoZone, 0, "tdz", Thrown("none"), NoValue)

\* distances from 25 km to 400 km, trips of one and two days, endpoints on
\* either side of the city centre, drop points inside, on and outside the
\* inner zone's boundary
PricingInputs ==
  {Quote("none", km, h, e[1], e[2], z, dd, b, Thrown("none"), NoValue) :
     km \in {2500, 8000, 9500, 15000, 40000}, h \in {0, 30},
     e \in {<<500, 3500>>, <<3500, 500>>, <<2000, 2000>>},
     z \in {NoZone, InnerZone(1000)}, dd \in {500, 1000, 1400},
     b \in {"tdz", "hoisted"}}

Priced(fn, out) ==
  /\ quote' = [quote EXCEPT !.fn = fn, !.out = out, !.deadhead = NoValue]
  /\ UNCHANGED <<rides, drivers, driverLocal, live_locations, otpResult, nearby,
                 notifications, trip_completions, config, dispatch, acc,
                 resp, fareResult, completeResult>>

PriceRegular(readOk) ==
  Priced("calculateRegularFare",
         calculateRegularFare(config["regular"], readOk, quote.km,
                              quote.zone, quote.dropDist, quote.build))

PriceRental(readOk) ==
  Priced("calculateRentalFare",
         calculateRentalFare(config["rental"], readOk, quote.km))

PriceOutstation(readOk) ==
  Priced("calculateOutstationFare",
         calculateOutstationFare(config["outstation"], readOk, quote.km,
                                 quote.hours))

PriceAirport(readOk) ==
  Priced("calculateAirportFare",
         calculateAirportFare(config["airport"], readOk,
                              quote.pickupToCenter, quote.dropToCenter))

PriceScheduledRental(readOk) ==
  Priced("Scheduled_calculateRentalFare",
         Scheduled_calculateRentalFare(config["rental"], readOk, quote.km))

PriceScheduledOutstation(readOk) ==
  Priced("Scheduled_calculateOutstationFare",
         Scheduled_calculateOutstationFare(config["outstation"], readOk,
                                           quote.km, quote.hours))

PriceScheduledAirport(readOk) ==
  Priced("Scheduled_calculateAirportFare",
         Scheduled_calculateAirportFare(config["airport"], readOk,
                                        quote.pickupToCenter,
                                        quote.dropToCenter))

PriceDeadhead ==
  /\ quote' =
       [quote EXCEPT
          !.fn = "calculateDeadheadCharges", !.out = Thrown("none"),
          !.deadhead =
            calculateDeadheadCharges(quote.dropDist,
                                     config["regular"].per_km_rate,
                                     quote.zone)]
  /\ UNCHANGED <<rides, drivers, driverLocal, live_locations, otpResult, nearby,
                 notifications, trip_completions, config, dispatch, acc,
                 resp, fareResult, completeResult>>

-----------------------------------------------------------------------------
(* Specifications *)

NoFareResult == FareFailure(0, "none")
NoCompleteResult == CompleteOutcome(0, FALSE)

AllConfigured == [bt \in BookingTypes |-> CHOOSE row \in RowsOf(bt) : TRUE]
Unconfigured == [bt \in BookingTypes |-> NoRow]

\* what no specification below starts with: no request in progress, no
\* response, no completion record
Quiet ==
  /\ trip_completions = <<>>
  /\ dispatch = Idle
  /\ acc = [d \in Drivers |-> NoCall]
  /\ resp = NoResponse
  /\ fareResult = NoFareResult
  /\ completeResult = NoCompleteResult
  /\ nearby = NoNearby
  /\ otpResult = NoOtpResult

SignedIn ==
  /\ drivers = [d \in Drivers |->
                  [status |-> "online", is_verified |-> TRUE,
                   vehicle_type |-> "sedan"]]
  /\ driverLocal = [d \in Drivers |-> "online"]

\* dispatch: rides have just been requested; every driver is signed in and
\* online, and driver 1 alone reports a location
Init ==
  /\ rides = [r \in Rides |-> NewRide("regular")]
  /\ SignedIn
  /\ live_locations \in LocSamples
  /\ notifications =
       [d \in Drivers |-> [r \in Rides |-> [unread |-> 0, read |-> 0]]]
  /\ config = AllConfigured
  /\ quote = NoQuote
  /\ Quiet

Next ==
  \/ \E r \in Rides, readOk \in BOOLEAN : NotifyLoad(r, readOk)
  \/ NotifyNoDrivers
  \/ \E insertOk \in BOOLEAN : NotifySend(insertOk)
  \/ NotifyFinish
  \/ \E d \in Drivers, r \in Rides : AcceptBegin(d, r)
  \/ \E d \in Drivers, storeOk \in BOOLEAN :
       handleAcceptRide(d, storeOk, TRUE, TRUE)
  \/ \E old \in SUBSET Rides : cleanup_expired_rides(old)
  \/ \E d \in Drivers, st \in {"offline", "online"} :
       updateDriverStatus(d, st, TRUE)

Spec == Init /\ [][Next]_vars

\* acceptance and the trip lifecycle: a dispatch has left every driver an
\* unread notification for every requested ride
AcceptInit ==
  /\ rides = [r \in Rides |-> NewRide("regular")]
  /\ SignedIn
  /\ live_locations = {LocSample(d, 5, 300, 1) : d \in Drivers}
  /\ notifications =
       [d \in Drivers |-> [r \in Rides |-> [unread |-> 1, read |-> 0]]]
  /\ config = AllConfigured
  /\ quote = NoQuote
  /\ Quiet

AcceptNext ==
  \/ \E d \in Drivers, r \in Rides : AcceptBegin(d, r)
  \/ \E d \in Drivers, storeOk, busyOk, clientOk \in BOOLEAN :
       handleAcceptRide(d, storeOk, busyOk, clientOk)
  \/ \E d \in Drivers, r \in Rides : markDriverArrived(d, r)
  \/ \E d \in Drivers, r \in Rides : startRide(d, r)
  \/ \E d \in Drivers, r \in Rides, storeOk, clientOk \in BOOLEAN :
       cancelRide(d, r, storeOk, clientOk)
  \/ \E r \in Rides, st \in RideStatuses, d \in Drivers \cup {NULL},
        storeOk \in BOOLEAN : handleUpdateRideStatus(r, st, d, storeOk)

AcceptSpec == AcceptInit /\ [][AcceptNext]_vars

\* acceptance alone: the drivers' clients send accept-ride requests and the
\* server answers them
AssignNext ==
  \/ \E d \in Drivers, r \in Rides : AcceptBegin(d, r)
  \/ \E d \in Drivers, storeOk, busyOk, clientOk \in BOOLEAN :
       handleAcceptRide(d, storeOk, busyOk, clientOk)

AssignSpec == AcceptInit /\ [][AssignNext]_vars

\* acceptance when one more ride than usual is waiting: every driver holds
\* an unread notification for each of the requested rides
WaitingRides == 1..(NumRides + 1)

BacklogInit ==
  /\ rides = [r \in WaitingRides |-> NewRide("regular")]
  /\ SignedIn
  /\ live_locations = {LocSample(d, 5, 300, 1) : d \in Drivers}
  /\ notifications =
       [d \in Drivers |-> [r \in WaitingRides |-> [unread |-> 1, read |-> 0]]]
  /\ config = AllConfigured
  /\ quote = NoQuote
  /\ Quiet

BacklogNext ==
  \/ \E d \in Drivers, r \in WaitingRides : AcceptBegin(d, r)
  \/ \E d \in Drivers, storeOk, busyOk, clientOk \in BOOLEAN :
       handleAcceptRide(d, storeOk, busyOk, clientOk)

BacklogSpec == BacklogInit /\ [][BacklogNext]_vars

\* the pickup: driver 1 has accepted the rides and no pickup code has been
\* generated yet
PickupInit ==
  /\ rides = [r \in Rides |-> [NewRide("regular") EXCEPT !.status = "accepted",
                                                        !.driver_id = 1]]
  /\ drivers = [d \in Drivers |->
                  [status |-> IF d = 1 THEN "busy" ELSE "online",
                   is_verified |-> TRUE, vehicle_type |-> "sedan"]]
  /\ driverLocal = [d \in Drivers |-> IF d = 1 THEN "busy" ELSE "online"]
  /\ live_locations = NoLocations
  /\ notifications =
       [d \in Drivers |-> [r \in Rides |-> [unread |-> 0, read |-> 1]]]
  /\ config = AllConfigured
  /\ quote = NoQuote
  /\ Quiet

PickupNext ==
  \/ \E d \in Drivers, r \in Rides : markDriverArrived(d, r)
  \/ \E r \in Rides, otp \in PickupCodes, storeOk \in BOOLEAN :
       generatePickupOTP(r, otp, storeOk)
  \/ \E d \in Drivers, r \in Rides, otp \in PickupCodes,
        readOk, startOk \in BOOLEAN : verifyPickupOTP(d, r, otp, readOk, startOk)
  \/ \E d \in Drivers, r \in Rides : startRide(d, r)
  \/ \E r \in Rides, st \in RideStatuses, d \in Drivers \cup {NULL},
        storeOk \in BOOLEAN : handleUpdateRideStatus(r, st, d, storeOk)

PickupSpec == PickupInit /\ [][PickupNext]_vars

\* the account: nobody is signed in; an administrator has left driver 1
\* offline or suspended, verified or not, and driver 2 offline and verified
AccountInit ==
  /\ rides = [r \in Rides |-> NewRide("regular")]
  /\ drivers \in
       {[d \in Drivers |->
           [status |-> IF d = 1 THEN st ELSE "offline",
            is_verified |-> IF d = 1 THEN v ELSE TRUE,
            vehicle_type |-> "sedan"]] :
          st \in {"offline", "suspended"}, v \in BOOLEAN}
  /\ driverLocal = [d \in Drivers |-> SignedOut]
  /\ live_locations = NoLocations
  /\ notifications =
       [d \in Drivers |-> [r \in Rides |-> [unread |-> 0, read |-> 0]]]
  /\ config = AllConfigured
  /\ quote = NoQuote
  /\ Quiet

AccountNext ==
  \/ \E d \in Drivers, credsOk, updateOk \in BOOLEAN :
       signIn(d, credsOk, updateOk)
  \/ \E d \in Drivers, readOk \in BOOLEAN, stored \in ClientStatuses :
       initializeAuth(d, readOk, stored)
  \/ \E d \in Drivers : signOut(d)
  \/ \E d \in Drivers, st \in ClientStatuses, ok \in BOOLEAN :
       driverLocal[d] # SignedOut /\ updateDriverStatus(d, st, ok)

AccountSpec == AccountInit /\ [][AccountNext]_vars

\* the fare engine on trips under way: the rides, all of one booking type,
\* have been accepted and started by driver 1, and the rate tables are
\* filled or empty
FareInit ==
  /\ rides \in {[r \in Rides |-> [NewRide(bt) EXCEPT !.status = "in_progress",
                                                      !.driver_id = 1]] :
                  bt \in BookingTypes}
  /\ drivers = [d \in Drivers |->
                  [status |-> IF d = 1 THEN "busy" ELSE "online",
                   is_verified |-> TRUE, vehicle_type |-> "sedan"]]
  /\ driverLocal = [d \in Drivers |-> IF d = 1 THEN "busy" ELSE "online"]
  /\ live_locations = NoLocations
  /\ notifications =
       [d \in Drivers |-> [r \in Rides |-> [unread |-> 0, read |-> 1]]]
  /\ config \in {AllConfigured, Unconfigured}
  /\ quote = NoQuote
  /\ Quiet

\* the store call of completeRide that fails, if any: a failed call ends the
\* handler, so at most one of them fails in an invocation
CompleteFailures == {"none", "read", "update", "client"}

FareNext ==
  \/ \E r \in Rides, km \in KmInputs, dur \in DurationInputs :
       \E env \in FareEnvs(rides[r].booking_type) :
         calculateAndStoreTripFare(r, km, dur, env)
  \/ \E d \in Drivers, r \in Rides, f \in CompleteFailures :
       \E env \in FareEnvs(rides[r].booking_type) :
         completeRide(d, r, env, f # "read", f # "update", f # "client")

FareSpec == FareInit /\ [][FareNext]_vars

\* trip completion alone: the driver's client invokes completeRide
CompleteNext ==
  \E d \in Drivers, r \in Rides, f \in CompleteFailures :
    \E env \in FareEnvs(rides[r].booking_type) :
      completeRide(d, r, env, f # "read", f # "update", f # "client")

CompleteSpec == FareInit /\ [][CompleteNext]_vars

\* the fare functions on their own: the rate tables are filled and the
\* measured inputs are any of PricingInputs
PricingInit ==
  /\ rides = [r \in Rides |-> NewRide("regular")]
  /\ SignedIn
  /\ live_locations = NoLocations
  /\ notifications =
       [d \in Drivers |-> [r \in Rides |-> [unread |-> 0, read |-> 0]]]
  /\ config = AllConfigured
  /\ quote \in PricingInputs
  /\ Quiet

PricingNext ==
  \/ \E readOk \in BOOLEAN : PriceRegular(readOk)
  \/ \E readOk \in BOOLEAN : PriceRental(readOk)
  \/ \E readOk \in BOOLEAN : PriceOutstation(readOk)
  \/ \E readOk \in BOOLEAN : PriceAirport(readOk)
  \/ \E readOk \in BOOLEAN : PriceScheduledRental(readOk)
  \/ \E readOk \in BOOLEAN : PriceScheduledOutstation(readOk)
  \/ \E readOk \in BOOLEAN : PriceScheduledAirport(readOk)
  \/ PriceDeadhead

PricingSpec == PricingInit /\ [][PricingNext]_vars

\* what one driver has uploaded to live_locations: nothing; a fresh row
\* near the pickup; a stale row next to the pickup; a row between the two
\* recency thresholds; an old row next to the pickup and a newer one
\* farther away; a burst of LocationQueryLimit rows
SampleOptions(d) ==
  {NoLocations, {LocSample(d, 5, 300, 1)}, {LocSample(d, 45, 100, 1)},
   {LocSample(d, 20, 500, 1)},
   {LocSample(d, 40, 100, 1), LocSample(d, 10, 500, 1)},
   {LocSample(d, 2, 300, LocationQueryLimit)}}

\* the tables in which drivers 1 and 2 have uploaded
LocationTables == {a \cup b : a \in SampleOptions(1), b \in SampleOptions(2)}

\* driver locality: sedan rides have just been requested, the drivers are
\* online and verified, driver 2 drives any vehicle type and the others a
\* sedan, and live_locations holds any of LocationTables
LocalityInit ==
  /\ rides = [r \in Rides |-> NewRide("regular")]
  /\ drivers \in {[d \in Drivers |->
                     [status |-> "online", is_verified |-> TRUE,
                      vehicle_type |-> IF d = 2 THEN vt ELSE "sedan"]] :
                    vt \in VehicleTypes}
  /\ driverLocal = [d \in Drivers |-> "online"]
  /\ live_locations \in LocationTables
  /\ notifications =
       [d \in Drivers |-> [r \in Rides |-> [unread |-> 0, read |-> 0]]]
  /\ config = AllConfigured
  /\ quote = NoQuote
  /\ Quiet

\* the check of handleFindNearbyDrivers that fails, if any: a failed check
\* ends the handler
SearchFailures == {"none", "pickup", "drivers", "locations"}

LocalityNext ==
  \/ \E vt \in VehicleTypes \cup {"any"}, f \in SearchFailures :
       handleFindNearbyDrivers(vt, RadiusKm, f # "pickup", f # "drivers",
                               f # "locations")
  \/ \E r \in Rides, readOk \in BOOLEAN : NotifyLoad(r, readOk)
  \/ NotifyNoDrivers
  \/ \E insertOk \in BOOLEAN : NotifySend(insertOk)
  \/ NotifyFinish

LocalitySpec == LocalityInit /\ [][LocalityNext]_vars

\* tables in which driver 1 has uploaded a row of any age next to the
\* pickup, alone or after an older fresh row, and driver 2 a fresh row
RecencyTables ==
  {a \cup {LocSample(2, 5, 300, 1)} :
     a \in {{LocSample(1, 5, 100, 1)}, {LocSample(1, 20, 100, 1)},
            {LocSample(1, 45, 100, 1)},
            {LocSample(1, 50, 100, 1), LocSample(1, 45, 200, 1)}}}

\* recency: as in LocalityInit with sedans only and RecencyTables
RecencyInit ==
  /\ rides = [r \in Rides |-> NewRide("regular")]
  /\ SignedIn
  /\ live_locations \in RecencyTables
  /\ notifications =
       [d \in Drivers |-> [r \in Rides |-> [unread |-> 0, read |-> 0]]]
  /\ config = AllConfigured
  /\ quote = NoQuote
  /\ Quiet

RecencySpec == RecencyInit /\ [][LocalityNext]_vars

-----------------------------------------------------------------------------
(* Properties: acceptance *)

\* driver d's accept-ride request is answered in this step, and the store
\* ran its conditional update
Answered(d) ==
  /\ acc[d] # NoCall
  /\ acc'[d] = NoCall
  /\ resp'.op = "accept"
  /\ resp'.driver = d
  /\ resp'.rows # Absent

\* C1: when the accept requests of two drivers for the same requested ride
\* are in flight together, the request handled while the ride is still
\* requested succeeds and makes its driver the ride's driver, and the other
\* is answered 409 Conflict and leaves the ride's driver as it is.
C1_RaceWinnerAndConflict ==
  [][\A d \in Drivers :
       (Answered(d) /\ acc[d].raced) =>
         LET r == acc[d].ride
         IN IF AcceptMatches(r) = 1
            THEN /\ resp'.http = 200
                 /\ rides'[r].driver_id = d
            ELSE /\ resp'.http = 409
                 /\ rides'[r].driver_id = rides[r].driver_id]_vars

\* C6: an accept whose conditional update matches zero rows is answered
\* 409 Conflict, which is neither success nor the 500 of a store failure,
\* and changes neither the ride nor the calling driver's status.
C6_ZeroRowsIsConflict ==
  [][\A d \in Drivers :
       (Answered(d) /\ resp'.rows = 0) =>
         /\ resp'.http = 409
         /\ ~resp'.success
         /\ rides' = rides
         /\ drivers'[d] = drivers[d]
         /\ driverLocal'[d] = driverLocal[d]]_vars

-----------------------------------------------------------------------------
(* Properties: ride status *)

\* C2: a ride has a driver if and only if its status is none of requested,
\* no_drivers_available and cancelled before assignment.
C2_DriverIffAssigned ==
  \A r \in Rides :
    /\ rides[r].status \in {"requested", "no_drivers_available"}
         => rides[r].driver_id = NULL
    /\ rides[r].status \in {"accepted", "driver_arrived", "in_progress",
                            "completed"}
         => rides[r].driver_id # NULL

\* the place of a status in the sequence requested, accepted,
\* driver_arrived, in_progress, completed
StatusSequence ==
  <<"requested", "accepted", "driver_arrived", "in_progress", "completed">>

Position(st) == CHOOSE i \in DOMAIN StatusSequence : StatusSequence[i] = st

InSequence(st) == \E i \in DOMAIN StatusSequence : StatusSequence[i] = st

\* C3: no step moves a ride from a status of the sequence to an earlier
\* status of the sequence.
C3_StatusMovesForward ==
  [][\A r \in Rides :
       (InSequence(rides[r].status) /\ InSequence(rides'[r].status)) =>
         Position(rides'[r].status) >= Position(rides[r].status)]_vars

-----------------------------------------------------------------------------
(* Properties: dispatch *)

\* C4: a notify-drivers request for a ride that is not requested is answered
\* success with drivers_found = 0 and notifications_sent = 0, and writes
\* neither a notification nor the ride.
C4_NotRequestedIsNoOp ==
  [][\A r \in Rides, readOk \in BOOLEAN :
       (NotifyLoad(r, readOk) /\ rides[r].status # "requested") =>
         /\ resp'.success
         /\ resp'.drivers_found = 0
         /\ resp'.notifications_sent = 0
         /\ notifications' = notifications
         /\ rides' = rides]_vars

-----------------------------------------------------------------------------
(* Properties: trip completion and fares *)

\* the completion records of ride r
CompletionsOf(r) ==
  {i \in DOMAIN trip_completions : trip_completions[i].ride_id = r}

\* C7: whatever the sequence of completeRide invocations for a ride, at
\* most one trip_completions row exists for it.
C7_OneCompletionPerRide ==
  \A r \in Rides : Cardinality(CompletionsOf(r)) <= 1

\* this step is an invocation of calculateAndStoreTripFare for ride r,
\* direct or from completeRide
FareInvoked(r) ==
  \/ \E km \in KmInputs, dur \in DurationInputs :
       \E env \in FareEnvs(rides[r].booking_type) :
         calculateAndStoreTripFare(r, km, dur, env)
  \/ \E d \in Drivers, f \in CompleteFailures \ {"read"} :
       \E env \in FareEnvs(rides[r].booking_type) :
         completeRide(d, r, env, TRUE, f # "update", f # "client")

\* C8: a successful calculateAndStoreTripFare leaves every earlier
\* completion record as it was and adds exactly one record, for its ride,
\* also when the ride already has one.
C8_InsertNeverUpdates ==
  [][\A r \in Rides :
       (fareResult'.success /\ fareResult'.ride = r /\ FareInvoked(r)) =>
         /\ Len(trip_completions') = Len(trip_completions) + 1
         /\ SubSeq(trip_completions', 1, Len(trip_completions))
              = trip_completions
         /\ trip_completions'[Len(trip_completions')].ride_id = r]_vars

\* two successful calls for one ride have left it two completion records
C8_Witness ==
  /\ fareResult.success
  /\ Cardinality(CompletionsOf(fareResult.ride)) = 2

ConfigurationErrors ==
  {"Fare configuration not found for this vehicle type",
   "Rental fare configuration not found",
   "Outstation fare configuration not found",
   "Airport fare configuration not found"}

\* C9: when the ride's booking type has no active rate row and the ride and
\* the zones are read, calculateAndStoreTripFare fails with a configuration
\* error, returns no breakdown, inserts no completion record and leaves the
\* ride as it was.
C9_MissingRateIsAnError ==
  [][\A r \in Rides, km \in KmInputs, dur \in DurationInputs :
       \A env \in FareEnvs(rides[r].booking_type) :
         (/\ ~config[rides[r].booking_type].is_active
          /\ env.fail \in {"none", "insert"}
          /\ calculateAndStoreTripFare(r, km, dur, env)) =>
            /\ ~fareResult'.success
            /\ fareResult'.error \in ConfigurationErrors
            /\ fareResult'.fareBreakdown = NoBreakdown
            /\ trip_completions' = trip_completions
            /\ rides' = rides]_vars

\* a calculation without a rate row has been refused
C9_Witness ==
  /\ fareResult.ride \in Rides
  /\ ~config[rides[fareResult.ride].booking_type].is_active
  /\ fareResult.error \in ConfigurationErrors
  /\ trip_completions = <<>>

\* the rate row of the example: base fare 50, 12 per km, no surge, platform
\* fee 10
ExampleRow ==
  [is_active |-> TRUE, base_fare |-> 50 * Scale, per_km_rate |-> 12 * Scale,
   surge_multiplier |-> 1 * Scale, platform_fee |-> 10 * Scale]

\* C10: for a regular ride priced by the example row, 10 km and no deadhead,
\* calculateAndStoreTripFare succeeds with distance_fare 72, surge_charges 0,
\* gst_on_charges 6.1, gst_on_platform_fee 1.8 and total_fare 139.9.
C10_RegularExample ==
  [][\A r \in Rides, dur \in DurationInputs :
       \A env \in FareEnvs(rides[r].booking_type) :
         (/\ rides[r].booking_type = "regular"
          /\ config["regular"] = ExampleRow
          /\ env.fail = "none"
          /\ env.zone = NoZone
          /\ calculateAndStoreTripFare(r, 10 * Scale, dur, env)) =>
            /\ fareResult'.success
            /\ fareResult'.fareBreakdown.distance_fare = 7200
            /\ fareResult'.fareBreakdown.surge_charges = 0
            /\ fareResult'.fareBreakdown.gst_on_charges = 610
            /\ fareResult'.fareBreakdown.gst_on_platform_fee = 180
            /\ fareResult'.fareBreakdown.total_fare = 13990]_vars

\* the fare function last applied on its own returned a breakdown
Quoted == quote.fn \notin {"none", "calculateDeadheadCharges"} /\ ~quote.out.threw

\* the sum of the ten component fields of a breakdown
ComponentSum(fb) ==
  JsAdd(JsAdd(JsAdd(JsAdd(JsAdd(JsAdd(JsAdd(JsAdd(JsAdd(
    fb.base_fare, fb.distance_fare), fb.time_fare), fb.surge_charges),
    fb.deadhead_charges), fb.platform_fee), fb.gst_on_charges),
    fb.gst_on_platform_fee), fb.extra_km_charges), fb.driver_allowance)

\* C11: in every fare breakdown a fare function returns, for any booking
\* type, total_fare is a number equal to the sum of the ten components.
C11_TotalIsSumOfComponents ==
  Quoted =>
    /\ ~isNaN(quote.out.fb.total_fare)
    /\ quote.out.fb.total_fare = ComponentSum(quote.out.fb)

\* C12: every outstation breakdown, of the fare service and of the
\* scheduled-booking completion path alike, charges for distance
\* daily_km_limit x days x per_km_rate when twice the one-way distance is
\* within daily_km_limit x days, and (2 x distance) x per_km_rate otherwise.
C12_OutstationAllOrNothing ==
  (/\ Quoted
   /\ quote.fn \in {"calculateOutstationFare",
                    "Scheduled_calculateOutstationFare"}) =>
    LET row == config["outstation"]
        days == Max(1, CeilDiv24(quote.hours))
        allowance == row.daily_km_limit * days
    IN quote.out.fb.distance_fare =
         IF 2 * quote.km <= allowance THEN JsMul(allowance, row.per_km_rate)
         ELSE JsMul(2 * quote.km, row.per_km_rate)

\* C13: a rental breakdown, of the fare service and of the scheduled-booking
\* completion path alike, has extra_km_charges (km - km_included) x
\* extra_km_rate when km exceeds km_included and 0 otherwise, total_fare
\* base_fare + extra_km_charges and every other component 0; base_fare 1500,
\* km_included 80, extra_km_rate 15 and 95 km give 225 and 1725.
C13_RentalFare ==
  (/\ Quoted
   /\ quote.fn \in {"calculateRentalFare", "Scheduled_calculateRentalFare"}) =>
    LET row == config["rental"]
        fb == quote.out.fb
    IN /\ fb.extra_km_charges =
            IF quote.km > row.km_included
            THEN ((quote.km - row.km_included) * row.extra_km_rate) \div Scale
            ELSE 0
       /\ fb.total_fare = fb.base_fare + fb.extra_km_charges
       /\ fb.base_fare = row.base_fare
       /\ \A x \in {fb.distance_fare, fb.time_fare, fb.surge_charges,
                    fb.deadhead_charges, fb.platform_fee, fb.gst_on_charges,
                    fb.gst_on_platform_fee, fb.driver_allowance} : x = 0
       /\ (/\ row.base_fare = 1500 * Scale
           /\ row.km_included = 80 * Scale
           /\ row.extra_km_rate = 15 * Scale
           /\ quote.km = 95 * Scale) =>
            fb.extra_km_charges = 225 * Scale /\ fb.total_fare = 1725 * Scale

\* the package of the example priced by the fare service for 95 km
C13_Witness ==
  /\ Quoted
  /\ quote.fn = "calculateRentalFare"
  /\ config["rental"].km_included = 80 * Scale
  /\ quote.km = 95 * Scale
  /\ quote.out.fb.extra_km_charges = 225 * Scale
  /\ quote.out.fb.total_fare = 1725 * Scale

\* C14: an airport breakdown, of the fare service and of the
\* scheduled-booking completion path alike, has as total_fare the flat
\* Hosur-to-airport fare when the pickup is closer to the city centre than
\* the drop and the flat airport-to-Hosur fare when the drop is closer,
\* whatever the distance travelled and the time taken.
C14_AirportFlatFare ==
  (/\ Quoted
   /\ quote.fn \in {"calculateAirportFare", "Scheduled_calculateAirportFare"}) =>
    LET row == config["airport"]
        fb == quote.out.fb
    IN /\ quote.pickupToCenter < quote.dropToCenter =>
            fb.total_fare = row.hosur_to_airport_fare
       /\ quote.dropToCenter < quote.pickupToCenter =>
            fb.total_fare = row.airport_to_hosur_fare

\* a 400 km trip from the airport priced by the fare service
C14_Witness ==
  /\ Quoted
  /\ quote.fn = "calculateAirportFare"
  /\ quote.dropToCenter < quote.pickupToCenter
  /\ quote.km = 400 * Scale
  /\ quote.out.fb.total_fare = config["airport"].airport_to_hosur_fare

\* C15: a drop point whose distance to the inner zone's centre is at most
\* the zone's radius_km, the radius itself included, has deadhead charges 0.
C15_InsideZoneNoDeadhead ==
  (/\ quote.fn = "calculateDeadheadCharges"
   /\ quote.zone.is_inner
   /\ quote.dropDist <= quote.zone.radius_km) =>
    quote.deadhead = 0

\* a drop point on the boundary of the inner zone
C15_Witness ==
  /\ quote.fn = "calculateDeadheadCharges"
  /\ quote.zone.is_inner
  /\ quote.dropDist = quote.zone.radius_km
  /\ quote.deadhead = 0

\* C16: deadhead charges are 0 when no active zone is the inner ring, and
\* for a drop point outside the inner zone they are
\* ((distance to centre - radius_km) / 2) x per_km_rate, never negative.
C16_DeadheadOutsideZone ==
  quote.fn = "calculateDeadheadCharges" =>
    /\ ~quote.zone.is_inner => quote.deadhead = 0
    /\ (quote.zone.is_inner /\ quote.dropDist > quote.zone.radius_km) =>
         /\ quote.deadhead =
              ((quote.dropDist - quote.zone.radius_km)
                 * config["regular"].per_km_rate) \div (2 * Scale)
         /\ quote.deadhead >= 0

\* a drop point 4 km outside the inner zone at 12 per km: 24
C16_Witness ==
  /\ quote.fn = "calculateDeadheadCharges"
  /\ quote.zone.is_inner
  /\ quote.dropDist = quote.zone.radius_km + 4 * Scale
  /\ quote.deadhead = 24 * Scale

\* the rows driver d has uploaded, and the newest of them
SamplesOf(d) == {x \in live_locations : x.user_id = d}
MostRecent(d) ==
  CHOOSE x \in SamplesOf(d) : \A y \in SamplesOf(d) : x.age_min <= y.age_min

\* driver d's most recent sample is older than maxAge minutes
Stale(d, maxAge) == SamplesOf(d) # {} /\ MostRecent(d).age_min > maxAge

C18_NotifiedDriversMatchVehicle ==
  \A d \in Drivers, r \in Rides :
    NotificationRows(d, r) > 0 =>
      drivers[d].vehicle_type = rides[r].vehicle_type

\* C19: the list a search returns is strictly ascending by distance: of two
\* adjacent results the earlier has the strictly smaller distance_km, in
\* the response of find-nearby-drivers and in the list findNearbyDrivers
\* hands to the dispatch.
C19_StrictlyAscendingDistance ==
  /\ \A i \in 1..(Len(nearby.drivers) - 1) :
       nearby.drivers[i].distance_km < nearby.drivers[i + 1].distance_km
  /\ \A i \in 1..(Len(dispatch.found) - 1) :
       MostRecent(dispatch.found[i]).dist
         < MostRecent(dispatch.found[i + 1]).dist

\* the online, verified drivers whose most recent sample is at most maxAge
\* minutes old and within radius
Eligible(maxAge, radius) ==
  {d \in onlineDrivers :
     /\ SamplesOf(d) # {}
     /\ ~Stale(d, maxAge)
     /\ MostRecent(d).dist <= radius}

\* C20: a search judges every driver by that driver's most recent sample:
\* the drivers it returns are those whose most recent sample is fresh and
\* within the radius (and, in find-nearby-drivers, whose vehicle matches),
\* at the distance of that sample; no older sample stands in for a newer
\* one and no driver with a fresh sample is treated as having none.
C20_MostRecentSampleUsed ==
  [][/\ \A r \in Rides :
          (rides[r].status = "requested" /\ NotifyLoad(r, TRUE)) =>
            {dispatch'.found[i] : i \in DOMAIN dispatch'.found}
              = Eligible(MaxLocationAgeMin, RadiusKm)
     /\ \A vt \in VehicleTypes \cup {"any"} :
          handleFindNearbyDrivers(vt, RadiusKm, TRUE, TRUE, TRUE) =>
            {<<nearby'.drivers[i].driver_id, nearby'.drivers[i].distance_km>> :
               i \in DOMAIN nearby'.drivers}
              = {<<d, RoundedKm(MostRecent(d).dist)>> :
                   d \in {e \in Eligible(EndpointMaxAgeMin, RadiusKm) :
                            vt \in {"any", drivers[e].vehicle_type}}}]_vars

-----------------------------------------------------------------------------
(* Properties: failures during dispatch *)

RECURSIVE RowsForRide(_, _, _)
RowsForRide(n, r, ds) ==
  IF ds = {} THEN 0
  ELSE LET d == CHOOSE e \in ds : TRUE
       IN n[d][r].unread + n[d][r].read + RowsForRide(n, r, ds \ {d})

\* C22: every turn of the notification loop moves on to the next driver
\* found whether its insert failed or not, and counts a notification exactly
\* when a row was created, for that driver; the request is answered only
\* after a turn for every driver found, with notifications_sent the number
\* of rows created.
C22_FailuresAreIndependent ==
  [][/\ (dispatch.pc = "sending" /\ dispatch'.pc = "sending"
           /\ dispatch' # dispatch) =>
          LET d == dispatch.found[dispatch.i]
              r == dispatch.ride
          IN /\ dispatch'.i = dispatch.i + 1
             /\ dispatch'.found = dispatch.found
             /\ dispatch'.created - dispatch.created
                  = RowsForRide(notifications', r, Drivers)
                      - RowsForRide(notifications, r, Drivers)
             /\ dispatch'.created - dispatch.created
                  = RowsForRide(notifications', r, {d})
                      - RowsForRide(notifications, r, {d})
     /\ (dispatch.pc = "sending" /\ dispatch' = Idle) =>
          /\ dispatch.i = Len(dispatch.found) + 1
          /\ resp'.drivers_found = Len(dispatch.found)
          /\ resp'.notifications_sent = dispatch.created]_vars

\* a request that found two drivers has been answered: the insert for the
\* first failed and the second driver has the one notification created
C22_Witness ==
  /\ resp.op = "notify"
  /\ resp.drivers_found = 2
  /\ resp.notifications_sent = 1
  /\ NotificationRows(1, resp.ride) = 0
  /\ NotificationRows(2, resp.ride) = 1

\* C23: a notify-drivers request whose reads of the drivers or of their
\* locations failed is not answered as a success.
C23_ReadFailureSurfaced ==
  [][(dispatch.pc # "idle" /\ ~dispatch.readOk /\ dispatch' = Idle) =>
       ~resp'.success]_vars

-----------------------------------------------------------------------------
(* Properties: acceptance and its side effects *)

\* C24: when the conditional update of an accept-ride request matches the
\* ride and the server's update of the driver's status to busy fails, the
\* request is still answered 200 success for that ride, and the ride is
\* accepted with that driver.
C24_BusyFailureNotRolledBack ==
  [][\A d \in Drivers, clientOk \in BOOLEAN :
       (/\ acc[d] # NoCall
        /\ AcceptMatches(acc[d].ride) = 1
        /\ handleAcceptRide(d, TRUE, FALSE, clientOk)) =>
         /\ resp'.success
         /\ resp'.http = 200
         /\ resp'.driver = d
         /\ resp'.ride = acc[d].ride
         /\ rides'[acc[d].ride].status = "accepted"
         /\ rides'[acc[d].ride].driver_id = d]_vars

\* an accept-ride request has been answered success and its ride is accepted
\* with the caller, whose status no update has made busy
C24_Witness ==
  /\ resp.op = "accept"
  /\ resp.success
  /\ rides[resp.ride].status = "accepted"
  /\ rides[resp.ride].driver_id = resp.driver
  /\ drivers[resp.driver].status # "busy"

\* C25: no step changes a ride from accepted to no_drivers_available: the
\* fallback of a notify-drivers request writes the ride only if it is still
\* requested.
C25_FallbackOnlyIfRequested ==
  [][\A r \in Rides :
       rides[r].status = "accepted" =>
         rides'[r].status # "no_drivers_available"]_vars


\* the statuses of a ride that occupies its driver
ActiveStatuses == {"accepted", "driver_arrived", "in_progress"}

\* the rides that occupy driver d
ActiveRidesOf(d) ==
  {r \in DOMAIN rides :
     rides[r].driver_id = d /\ rides[r].status \in ActiveStatuses}

\* C26: no driver is ever assigned at the same time to two rides whose
\* status is accepted, driver_arrived or in_progress
C26_OneActiveRidePerDriver ==
  \A d \in Drivers : Cardinality(ActiveRidesOf(d)) <= 1

\* C27: however many notify-drivers requests are made for a ride, each
\* driver has at most one ride_request notification for that ride
C27_OneNotificationPerDriverAndRide ==
  \A d \in Drivers, r \in Rides : NotificationRows(d, r) <= 1

\* C28: a completeRide call that returns success: false has neither moved a
\* ride to completed nor added a trip_completions row, and a call that adds
\* a trip_completions row leaves its ride completed
C28_FailedCompletionLeavesNoTrace ==
  [][\A d \in Drivers, r \in Rides, f \in CompleteFailures :
       \A env \in FareEnvs(rides[r].booking_type) :
         completeRide(d, r, env, f # "read", f # "update", f # "client") =>
           /\ ~completeResult'.success =>
                /\ trip_completions' = trip_completions
                /\ rides'[r].status = rides[r].status
           /\ trip_completions' # trip_completions =>
                rides'[r].status = "completed"]_vars

\* C29: a ride enters in_progress only in a verifyPickupOTP call whose code
\* matches the ride's pickup_otp, and a verifyPickupOTP call whose code does
\* not match leaves the ride's status as it was
C29_InProgressOnlyAfterMatchingOtp ==
  [][\A r \in Rides :
       /\ (rides[r].status # "in_progress"
           /\ rides'[r].status = "in_progress") =>
            /\ rides[r].pickup_otp \in PickupCodes
            /\ \E d \in Drivers :
                 verifyPickupOTP(d, r, rides[r].pickup_otp, TRUE, TRUE)
       /\ \A d \in Drivers, otp \in PickupCodes,
             readOk, startOk \in BOOLEAN :
            (otp # rides[r].pickup_otp
             /\ verifyPickupOTP(d, r, otp, readOk, startOk)) =>
              rides'[r].status = rides[r].status]_vars

\* C30: no operation of the driver's client moves a driver's status from
\* suspended to online or sets is_verified from false to true
C30_ClientNeverMakesDriverEligible ==
  [][\A d \in Drivers :
       /\ drivers[d].status = "suspended" => drivers'[d].status # "online"
       /\ ~drivers[d].is_verified => ~drivers'[d].is_verified]_vars
====
